---- MODULE Spec2Model ----
(***************************************************************************)
(* Model of iotd (image of the day): the file-backed subscription store    *)
(* of src/iotd.py, the dispatch path that fires a plugin for its           *)
(* subscribers and the plugins' per-recipient delivery loops.              *)
(*                                                                         *)
(* The store is the file SUBSCRIPTIONS_CONFIG.  It is modelled by the pair *)
(* (exists, text): whether the file is there, and its TOML document as a   *)
(* sequence of tables.  Every store function reads the whole file, parses  *)
(* it into an insertion-ordered dict, and the two mutating functions dump  *)
(* the whole dict back.                                                    *)
(***************************************************************************)
EXTENDS Integers, Sequences, FiniteSets, TLC

VARIABLES exists, text, calls, lastCall, raised, ref, jobs, snapshot, fire,
          dir, polling, replies, day, fired, handlers, returned

vars == <<exists, text, calls, lastCall, raised, ref, jobs, snapshot, fire,
          dir, polling, replies, day, fired, handlers, returned>>

(***************************************************************************)
(* Bounds and input domains.                                               *)
(***************************************************************************)
MaxCalls == 3

MaxCommits == 2

MaxCandidates == 2

MaxDays == 2

UserIds == {1, 2, 42}

Registered == {"bigpanda", "kjilat"}

PluginNames == Registered \cup {"ghost"}

None == "<None>"

Names == {"Ann B", "Bob None"}

(***************************************************************************)
(* Python values.                                                          *)
(***************************************************************************)
Range(s) == {s[i] : i \in DOMAIN s}

str(user) == ToString(user)

int(key) == CHOOSE u \in UserIds : str(u) = key

\* An insertion-ordered dict is a sequence of items [k, v] with distinct keys.
EmptyDict == <<>>

Has(d, k) == \E i \in DOMAIN d : d[i].k = k

Get(d, k) == d[CHOOSE i \in DOMAIN d : d[i].k = k].v

\* A rewrite that keeps the edited item only.
PutAlone(d, k, v) == <<[k |-> k, v |-> v]>>

\* d[k] = v: an existing key keeps its position, a new key goes last.
Put(d, k, v) ==
    IF Has(d, k)
    THEN [i \in DOMAIN d |-> IF d[i].k = k THEN [k |-> k, v |-> v] ELSE d[i]]
    ELSE Append(d, [k |-> k, v |-> v])

\* del d[k]
Del(d, k) == SelectSeq(d, LAMBDA item : item.k # k)

\* userdata.get("subscriptions", [])
GetSubscriptions(userdata) ==
    IF "subscriptions" \in DOMAIN userdata THEN userdata.subscriptions ELSE <<>>

\* list.pop() in the place of list.remove(x): drops the last element.
RemoveLast(list, x) == SubSeq(list, 1, Len(list) - 1)

\* list.remove(x): drops the first occurrence of x.
Remove(list, x) ==
    LET i == CHOOSE j \in DOMAIN list :
                 list[j] = x /\ \A h \in 1..(j - 1) : list[h] # x
    IN  SubSeq(list, 1, i - 1) \o SubSeq(list, i + 1, Len(list))

\* All the lists that enumerate a set once each: list(set(...)) in some
\* iteration order of the set.
ListsOf(S) ==
    {s \in [1..Cardinality(S) -> S] : Range(s) = S}

(***************************************************************************)
(* toml.dumps / toml.loads on the shapes the store holds: one table per    *)
(* user key, with an array line "subscriptions" and a string line "name".  *)
(***************************************************************************)
DumpTable(userdata) ==
    (IF "subscriptions" \in DOMAIN userdata
     THEN <<[key |-> "subscriptions", arr |-> userdata.subscriptions]>>
     ELSE <<>>)
    \o
    (IF "name" \in DOMAIN userdata
     THEN <<[key |-> "name", val |-> userdata.name]>>
     ELSE <<>>)

dumps(data) ==
    [i \in DOMAIN data |->
        [header |-> data[i].k, lines |-> DumpTable(data[i].v)]]

ParseTable(lines) ==
    [f \in {lines[j].key : j \in DOMAIN lines} |->
        LET l == lines[CHOOSE j \in DOMAIN lines : lines[j].key = f]
        IN  IF f = "subscriptions" THEN l.arr ELSE l.val]

loads(doc) ==
    [i \in DOMAIN doc |->
        [k |-> doc[i].header, v |-> ParseTable(doc[i].lines)]]

(***************************************************************************)
(* The store functions.  `file` is [exists, text].                         *)
(***************************************************************************)
File == [exists |-> exists, text |-> text]

ReadData(file) == IF file.exists THEN loads(file.text) ELSE EmptyDict

\* subscriptions(user)
subscriptions(file, user) ==
    IF ~file.exists THEN <<>>
    ELSE LET config == loads(file.text)
         IN  IF ~Has(config, str(user)) THEN <<>>
             ELSE GetSubscriptions(Get(config, str(user)))

\* subscriber with the membership test on the table's keys, not on its
\* subscriptions.
subscriberByKey(file, plugin_name) ==
    IF ~file.exists THEN <<>>
    ELSE LET users == loads(file.text)
             kept  == SelectSeq(users, LAMBDA item :
                          plugin_name = None
                          \/ plugin_name \in DOMAIN item.v)
         IN  [i \in DOMAIN kept |-> int(kept[i].k)]

\* subscriber(plugin_name)
subscriber(file, plugin_name) ==
    IF ~file.exists THEN <<>>
    ELSE LET users == loads(file.text)
             kept  == SelectSeq(users, LAMBDA item :
                          plugin_name = None
                          \/ plugin_name \in Range(GetSubscriptions(item.v)))
         IN  [i \in DOMAIN kept |-> int(kept[i].k)]

\* The lists line 67-69 can assign: list(set(old + [plugin_name])).
SubscribeListNoSet(old, plugin_name) == {old \o <<plugin_name>>}

SubscribeList(old, plugin_name) == ListsOf(Range(old \o <<plugin_name>>))

\* The user's table after lines 67-71.
SubscribeTable(userdata, list, name) ==
    LET withList == [f \in DOMAIN userdata \cup {"subscriptions"} |->
                        IF f = "subscriptions" THEN list ELSE userdata[f]]
    IN  IF name # None
        THEN [f \in DOMAIN withList \cup {"name"} |->
                 IF f = "name" THEN name ELSE withList[f]]
        ELSE withList

\* subscribe(user, plugin_name, name): the files it can leave, one for each
\* iteration order of the set.
subscribe(file, user, plugin_name, name) ==
    LET data     == ReadData(file)
        userdata == IF Has(data, str(user)) THEN Get(data, str(user)) ELSE <<>>
    IN  {[raised |-> None,
          exists |-> TRUE,
          text   |-> dumps(Put(data, str(user),
                               SubscribeTable(userdata, list, name)))] :
            list \in SubscribeList(GetSubscriptions(userdata), plugin_name)}

\* A slip that would keep the emptied table.
CleanupNever(data, key, userdata) == Put(data, key, userdata)

\* Lines 85-86: a table left without subscriptions is deleted.
Cleanup(data, key, userdata) ==
    IF GetSubscriptions(userdata) = <<>>
    THEN Del(data, key)
    ELSE Put(data, key, userdata)

\* unsubscribe(user, plugin_name).  For a user without a table line 82 stores
\* a list under the key and line 83 calls .get on that list: AttributeError,
\* raised before the write of line 87.
unsubscribe(file, user, plugin_name) ==
    LET data == ReadData(file)
    IN  IF ~Has(data, str(user))
        THEN [raised |-> "AttributeError",
              exists |-> file.exists, text |-> file.text]
        ELSE LET userdata == Get(data, str(user))
                 removed  ==
                     IF plugin_name \in Range(GetSubscriptions(userdata))
                     THEN [userdata EXCEPT !.subscriptions =
                              Remove(userdata.subscriptions, plugin_name)]
                     ELSE userdata
                 after    == Cleanup(data, str(user), removed)
             IN  [raised |-> None, exists |-> TRUE, text |-> dumps(after)]

(***************************************************************************)
(* The reference store of the contract: a map from users to sets.          *)
(***************************************************************************)
RefSubscribe(r, user, plugin_name) ==
    [r EXCEPT ![user] = @ \cup {plugin_name}]

RefUnsubscribe(r, user, plugin_name) ==
    [r EXCEPT ![user] = @ \ {plugin_name}]

(***************************************************************************)
(* The plugin registry of the two plugins under src/plugins, and the       *)
(* daily jobs made from it.                                                *)
(***************************************************************************)
bigpanda_HOUR == 8

bigpanda_MINUTE == 51

kjilat_HOUR == 14

kjilat_MINUTE == 47

\* The attributes a plugin module can have.  A module of the plugin
\* directory is [name, attrs]: the attributes it defines, with their values.
AllAttrs == {"NAME", "HOUR", "MINUTE", "run"}

AttrValue(name, attr) ==
    CASE attr = "run"    -> "run"
      [] attr = "NAME"   -> IF name = "bigpanda" THEN "STD Panda of the Day"
                            ELSE IF name = "kjilat"
                            THEN "Kim Jong-Il Looking at Things"
                            ELSE "Ghost"
      [] attr = "HOUR"   -> IF name = "bigpanda" THEN bigpanda_HOUR
                            ELSE IF name = "kjilat" THEN kjilat_HOUR
                            ELSE 23
      [] attr = "MINUTE" -> IF name = "bigpanda" THEN bigpanda_MINUTE
                            ELSE IF name = "kjilat" THEN kjilat_MINUTE
                            ELSE 30

Module(name, have) ==
    [name |-> name, attrs |-> [attr \in have |-> AttrValue(name, attr)]]

\* src/plugins as it is.
RepoDir == <<Module("bigpanda", AllAttrs), Module("kjilat", AllAttrs)>>

\* hasattr(plugin, attr)
hasattr(module, attr) == attr \in DOMAIN module.attrs

\* A registry that asks for HOUR and MINUTE only.
load_plugins_timed(d) ==
    LET kept == SelectSeq(d, LAMBDA module :
                    hasattr(module, "HOUR") /\ hasattr(module, "MINUTE"))
    IN  [i \in DOMAIN kept |-> [k |-> kept[i].name, v |-> kept[i].attrs]]

\* A registry that asks for run only and leaves the times to their defaults.
load_plugins_runnable(d) ==
    LET kept == SelectSeq(d, LAMBDA module : hasattr(module, "run"))
    IN  [i \in DOMAIN kept |-> [k |-> kept[i].name, v |-> kept[i].attrs]]

\* Bot.load_plugins: the dict of the modules that have HOUR, MINUTE and run.
load_plugins(d) ==
    LET kept == SelectSeq(d, LAMBDA module :
                    /\ hasattr(module, "HOUR")
                    /\ hasattr(module, "MINUTE")
                    /\ hasattr(module, "run"))
    IN  [i \in DOMAIN kept |-> [k |-> kept[i].name, v |-> kept[i].attrs]]

\* self.plugins, loaded from the plugin directory when the Bot is made.
plugins == load_plugins(dir)

\* getattr(plugin, "HOUR", 0)
plugin_hour(plugin) == IF "HOUR" \in DOMAIN plugin THEN plugin.HOUR ELSE 0

\* getattr(plugin, "MINUTE", 0)
plugin_minute(plugin) == IF "MINUTE" \in DOMAIN plugin THEN plugin.MINUTE ELSE 0

\* getattr(plugin, "NAME", plugin_name)
plugin_long_name(plugin, plugin_name) ==
    IF "NAME" \in DOMAIN plugin THEN plugin.NAME ELSE plugin_name

\* Bot.plugin_long_name_from_short_name
plugin_long_name_from_short_name(plugin_name) ==
    IF Has(plugins, plugin_name)
    THEN plugin_long_name(Get(plugins, plugin_name), plugin_name)
    ELSE None

\* One run_daily job for each item of the registry, in its order.
JobsFor(registry) ==
    [i \in DOMAIN registry |->
        [name   |-> registry[i].k,
         hour   |-> plugin_hour(registry[i].v),
         minute |-> plugin_minute(registry[i].v),
         second |-> 0]]

\* A scheduler that is run twice over the registry.
schedule_plugin_messages_twice == JobsFor(plugins) \o JobsFor(plugins)

\* The jobs schedule_plugin_messages hands to job_queue.run_daily.
schedule_plugin_messages == JobsFor(plugins)

(***************************************************************************)
(* Delivery.  `failing` is the set of chat ids whose send raises.  A       *)
(* delivery is [ran, chat_ids, attempted, sent, errors, log, raised]: the  *)
(* plugins whose run was invoked, the list handed to run, the sends        *)
(* attempted and completed in order, the chat ids of the logged send       *)
(* errors, the dispatcher's own error log, and the exception that escaped. *)
(* Its fields failing and fetchOK keep the inputs of the call.             *)
(***************************************************************************)
NoDelivery ==
    [ran |-> <<>>, chat_ids |-> <<>>, attempted |-> <<>>, sent |-> <<>>,
     errors |-> <<>>, log |-> <<>>, raised |-> None,
     failing |-> {}, fetchOK |-> TRUE]

\* The loop with a send that is not guarded: the first failure ends it.
RECURSIVE SendLoopUnguarded(_, _, _)
SendLoopUnguarded(chat_ids, failing, acc) ==
    IF chat_ids = <<>> THEN acc
    ELSE LET chat_id == Head(chat_ids)
         IN  IF chat_id \in failing
             THEN [acc EXCEPT !.attempted = Append(@, chat_id),
                              !.raised = "Exception"]
             ELSE SendLoopUnguarded(Tail(chat_ids), failing,
                      [acc EXCEPT !.attempted = Append(@, chat_id),
                                  !.sent = Append(@, chat_id)])

\* for chat_id in chat_ids: try: send(...) except Exception as e: log
RECURSIVE SendLoop(_, _, _)
SendLoop(chat_ids, failing, acc) ==
    IF chat_ids = <<>> THEN acc
    ELSE LET chat_id == Head(chat_ids)
         IN  SendLoop(Tail(chat_ids), failing,
                 IF chat_id \in failing
                 THEN [acc EXCEPT !.attempted = Append(@, chat_id),
                                  !.errors = Append(@, chat_id)]
                 ELSE [acc EXCEPT !.attempted = Append(@, chat_id),
                                  !.sent = Append(@, chat_id)])

\* kjilat.run: Image.daily() reads and indexes the image list, then the loop.
kjilat_run(chat_ids, failing, fetchOK, acc) ==
    IF ~fetchOK THEN [acc EXCEPT !.raised = "Exception"]
    ELSE SendLoop(chat_ids, failing, acc)

\* bigpanda.run: reddit login, post_of_the_day, cache and the image download,
\* then the loop.
bigpanda_run(chat_ids, failing, fetchOK, acc) ==
    IF ~fetchOK THEN [acc EXCEPT !.raised = "Exception"]
    ELSE SendLoop(chat_ids, failing, acc)

\* self.plugins[plugin_name].run(bot, subscribers, secrets).  A plugin other
\* than the two of the repository is taken to deliver with the same loop.
PluginRun(plugin_name, chat_ids, failing, fetchOK, acc) ==
    IF plugin_name = "bigpanda"
    THEN bigpanda_run(chat_ids, failing, fetchOK, acc)
    ELSE kjilat_run(chat_ids, failing, fetchOK, acc)

\* A dispatcher that hands run the list it captured when the jobs were
\* scheduled.
RunSubscribersAtSchedule(file, plugin_name) ==
    CHOOSE list \in ListsOf(snapshot[plugin_name]) : TRUE

\* subscribers = subscriber(plugin_name), read when the plugin is run.
RunSubscribers(file, plugin_name) == subscriber(file, plugin_name)

\* A dispatcher that runs the first plugin it has for a name it lacks.
RunUnknownFallback(file, plugin_name, failing, fetchOK) ==
    LET fallback == plugins[1].k
        subscribers == RunSubscribers(file, fallback)
    IN  PluginRun(fallback, subscribers, failing, fetchOK,
            [NoDelivery EXCEPT !.ran = <<fallback>>,
                               !.chat_ids = subscribers])

\* The else branch of run_plugin_named.
RunUnknown(file, plugin_name, failing, fetchOK) ==
    [NoDelivery EXCEPT !.log = <<"Running (not found)">>]

\* Bot.run_plugin_named(plugin_name)
run_plugin_named(file, plugin_name, failing, fetchOK) ==
    IF Has(plugins, plugin_name)
    THEN LET subscribers == RunSubscribers(file, plugin_name)
         IN  PluginRun(plugin_name, subscribers, failing, fetchOK,
                 [NoDelivery EXCEPT !.ran = <<plugin_name>>,
                                    !.chat_ids = subscribers])
    ELSE RunUnknown(file, plugin_name, failing, fetchOK)

\* Bot.psa(message)
psa(file, failing) ==
    LET chat_ids == subscriber(file, None)
    IN  SendLoop(chat_ids, failing, [NoDelivery EXCEPT !.chat_ids = chat_ids])

(***************************************************************************)
(* Actions.                                                                *)
(***************************************************************************)
\* lastCall is the most recent call and its arguments; again says that the
\* call before it was the same call with the same arguments.
Call(op, user, plugin, name) ==
    [op |-> op, user |-> user, plugin |-> plugin, name |-> name,
     again |-> /\ lastCall.op = op
               /\ lastCall.user = user
               /\ lastCall.plugin = plugin
               /\ lastCall.name = name]

NoCall ==
    [op |-> "init", user |-> 0, plugin |-> None, name |-> None,
     again |-> FALSE]

\* What the last call of a store function gave its caller: a value, or an
\* exception.
Returns(value) == [raised |-> None, value |-> value]

Raises(exception) == [raised |-> exception, value |-> None]

NoReturn == Returns(None)

\* The store API on its own, from no file at all.
InitStore ==
    /\ exists = FALSE
    /\ text = <<>>
    /\ calls = 0
    /\ lastCall = NoCall
    /\ raised = None
    /\ ref = [u \in UserIds |-> {}]
    /\ jobs = <<>>
    /\ snapshot = [plugin_name \in Registered |-> {}]
    /\ fire = NoDelivery
    /\ dir = RepoDir
    /\ polling = FALSE
    /\ replies = <<>>
    /\ day = 1
    /\ fired = <<>>
    /\ handlers = <<>>
    /\ returned = NoReturn

Subscribe ==
    /\ calls < MaxCalls
    /\ \E user \in UserIds, plugin_name \in PluginNames,
          name \in Names \cup {None} :
          \E result \in subscribe(File, user, plugin_name, name) :
              /\ exists' = result.exists
              /\ text' = result.text
              /\ raised' = result.raised
              /\ lastCall' = Call("subscribe", user, plugin_name, name)
              /\ ref' = RefSubscribe(ref, user, plugin_name)
    /\ calls' = calls + 1
    /\ fire' = NoDelivery
    /\ UNCHANGED <<jobs, snapshot, dir, polling, replies, day, fired,
               handlers, returned>>

Unsubscribe ==
    /\ calls < MaxCalls
    /\ \E user \in UserIds, plugin_name \in PluginNames :
          LET result == unsubscribe(File, user, plugin_name)
          IN  /\ exists' = result.exists
              /\ text' = result.text
              /\ raised' = result.raised
              /\ lastCall' = Call("unsubscribe", user, plugin_name, None)
              /\ ref' = RefUnsubscribe(ref, user, plugin_name)
    /\ calls' = calls + 1
    /\ fire' = NoDelivery
    /\ UNCHANGED <<jobs, snapshot, dir, polling, replies, day, fired,
               handlers, returned>>

NextStore == Subscribe \/ Unsubscribe

SpecStore == InitStore /\ [][NextStore]_vars

(***************************************************************************)
(* The bot.  The file outlives the process: a bot starts either without a  *)
(* file or on the store an earlier run left, here the one in which every   *)
(* user subscribes to bigpanda.                                            *)
(***************************************************************************)
\* f"{chat.first_name} {chat.last_name}" of the user's chat.
ChatName(user) == IF user = 1 THEN "Ann B" ELSE "Bob None"

StoreLeft ==
    dumps([i \in 1..3 |->
              LET user == <<1, 2, 42>>[i]
              IN  [k |-> str(user),
                   v |-> [subscriptions |-> <<"bigpanda">>,
                          name |-> ChatName(user)]]])

Init ==
    /\ \/ exists = FALSE /\ text = <<>>
       \/ exists = TRUE /\ text = StoreLeft
    /\ calls = 0
    /\ lastCall = NoCall
    /\ raised = None
    /\ ref = [u \in UserIds |-> Range(subscriptions(File, u))]
    /\ jobs = <<>>
    /\ snapshot = [plugin_name \in Registered |-> {}]
    /\ fire = NoDelivery
    /\ dir = RepoDir
    /\ polling = FALSE
    /\ replies = <<>>
    /\ day = 1
    /\ fired = <<>>
    /\ handlers = <<>>
    /\ returned = NoReturn

\* Bot.callback on the button data "<action> <plugin>": the files it can
\* leave and the exception that escapes it.  The updater calls it once it
\* polls, that is after Bot.run has scheduled the jobs.
callback(file, user, action, plugin, name) ==
    IF action = "subscribe"
    THEN subscribe(file, user, plugin, name)
    ELSE IF action = "unsubscribe"
    THEN {unsubscribe(file, user, plugin)}
    ELSE {[raised |-> None, exists |-> file.exists, text |-> file.text]}

Callback ==
    /\ polling
    /\ calls < MaxCommits
    /\ \E user \in UserIds, action \in {"subscribe", "unsubscribe"},
          plugin \in PluginNames :
          \E result \in callback(File, user, action, plugin, ChatName(user)) :
              /\ exists' = result.exists
              /\ text' = result.text
              /\ raised' = result.raised
              /\ lastCall' = Call("callback " \o action, user, plugin,
                                  ChatName(user))
              /\ ref' = IF action = "subscribe"
                        THEN RefSubscribe(ref, user, plugin)
                        ELSE RefUnsubscribe(ref, user, plugin)
    /\ calls' = calls + 1
    /\ fire' = NoDelivery
    /\ UNCHANGED <<jobs, snapshot, dir, polling, replies, day, fired,
               handlers, returned>>

\* Bot.run: schedule_plugin_messages, once, and then start_polling: the
\* handlers run only after the jobs are scheduled.  snapshot remembers who
\* subscribed to what at that moment.
Schedule ==
    /\ ~polling
    /\ polling' = TRUE
    /\ jobs' = schedule_plugin_messages
    /\ snapshot' = [plugin_name \in Registered |->
                       Range(subscriber(File, plugin_name))]
    /\ lastCall' = Call("schedule_plugin_messages", 0, None, None)
    /\ raised' = None
    /\ fire' = NoDelivery
    /\ UNCHANGED <<exists, text, calls, ref, dir, replies, day, fired,
               handlers, returned>>

Delivered(op, plugin_name, delivery, failing, fetchOK) ==
    /\ fire' = [delivery EXCEPT !.failing = failing, !.fetchOK = fetchOK]
    /\ raised' = delivery.raised
    /\ lastCall' = Call(op, 0, plugin_name, None)
    /\ UNCHANGED <<exists, text, calls, ref, jobs, snapshot,
                   dir, polling, replies, day, fired,
               handlers, returned>>

\* The sends that can fail in a delivery to chat_ids: any of them, when the
\* delivery gets as far as sending.
Failing(chat_ids, fetchOK) ==
    IF fetchOK THEN SUBSET Range(chat_ids) ELSE {{}}

\* Bot.run_plugin(context): the job queue fires a job; the job's name is the
\* plugin's name.
RunPlugin ==
    \E i \in DOMAIN jobs, fetchOK \in BOOLEAN :
        \E failing \in Failing(subscriber(File, jobs[i].name), fetchOK) :
            Delivered("run_plugin", jobs[i].name,
                      run_plugin_named(File, jobs[i].name, failing, fetchOK),
                      failing, fetchOK)

\* Bot.run_plugin_named(plugin_name), the on-demand trigger.
RunPluginNamed ==
    \E plugin_name \in PluginNames, fetchOK \in BOOLEAN :
        \E failing \in Failing(subscriber(File, plugin_name), fetchOK) :
            Delivered("run_plugin_named", plugin_name,
                      run_plugin_named(File, plugin_name, failing, fetchOK),
                      failing, fetchOK)

\* Bot.psa(message)
Psa ==
    \E failing \in Failing(subscriber(File, None), TRUE) :
        Delivered("psa", None, psa(File, failing), failing, TRUE)

Next ==
    \/ Callback
    \/ Schedule
    \/ RunPlugin
    \/ RunPluginNamed
    \/ Psa

Spec == Init /\ [][Next]_vars

(***************************************************************************)
(* The listing handlers.  A message is [text, buttons]; a button is        *)
(* [label, data], its data the pair that callback splits the string into.  *)
(***************************************************************************)
Button(action, item) ==
    [label |-> plugin_long_name(item.v, item.k), data |-> <<action, item.k>>]

\* A start that offers every plugin of the registry.
start_everything(file, user) ==
    <<[text |-> "What do you want to subscribe to?",
       buttons |-> [i \in DOMAIN plugins |-> Button("subscribe", plugins[i])]]>>

\* Bot.start: the messages it sends to the user.
start(file, user) ==
    LET user_subscriptions == subscriptions(file, user)
        subscribeable_plugins ==
            SelectSeq(plugins, LAMBDA item :
                item.k \notin Range(user_subscriptions))
    IN  IF subscribeable_plugins = <<>>
        THEN <<[text |-> "You already subscribe to everything", buttons |-> <<>>]>>
        ELSE <<[text |-> "What do you want to subscribe to?",
                buttons |-> [i \in DOMAIN subscribeable_plugins |->
                                Button("subscribe", subscribeable_plugins[i])]]>>

\* Bot.stop: the messages it sends to the user.
stop(file, user) ==
    LET user_subscriptions == subscriptions(file, user)
        unsubscribeable_plugins ==
            SelectSeq(plugins, LAMBDA item :
                item.k \in Range(user_subscriptions))
    IN  IF unsubscribeable_plugins = <<>>
        THEN <<[text |-> "You don't subscribe to anything yet.", buttons |-> <<>>]>>
        ELSE <<[text |-> "What do you want to unsubscribe from?",
                buttons |-> [i \in DOMAIN unsubscribeable_plugins |->
                                Button("unsubscribe", unsubscribeable_plugins[i])]]>>

Listed(op, user, messages) ==
    /\ polling
    /\ replies' = messages
    /\ lastCall' = Call(op, user, None, None)
    /\ raised' = None
    /\ fire' = NoDelivery
    /\ UNCHANGED <<exists, text, calls, ref, jobs, snapshot, dir, polling,
                   day, fired,
               handlers, returned>>

Start == \E user \in UserIds : Listed("start", user, start(File, user))

Stop == \E user \in UserIds : Listed("stop", user, stop(File, user))

(***************************************************************************)
(* The registry over plugin directories other than the repository's: each  *)
(* candidate module is there or not, with any of HOUR, MINUTE and run.     *)
(***************************************************************************)
CandidateNames == SubSeq(<<"bigpanda", "kjilat", "ghost">>, 1, MaxCandidates)

Choices(name) ==
    {<<>>} \cup {<<Module(name, have \cup {"NAME"})>> :
                    have \in SUBSET {"HOUR", "MINUTE", "run"}}

RECURSIVE DirsOver(_)
DirsOver(names) ==
    IF names = <<>> THEN {<<>>}
    ELSE {h \o t : h \in Choices(Head(names)), t \in DirsOver(Tail(names))}

Directories == DirsOver(CandidateNames)

InitRegistry ==
    /\ \/ exists = FALSE /\ text = <<>>
       \/ exists = TRUE /\ text = StoreLeft
    /\ calls = 0
    /\ lastCall = NoCall
    /\ raised = None
    /\ ref = [u \in UserIds |-> Range(subscriptions(File, u))]
    /\ jobs = <<>>
    /\ snapshot = [plugin_name \in Registered |-> {}]
    /\ fire = NoDelivery
    /\ dir \in Directories
    /\ polling = FALSE
    /\ replies = <<>>
    /\ day = 1
    /\ fired = <<>>
    /\ handlers = <<>>
    /\ returned = NoReturn

\* The time of day of a job, in minutes.
JobTime(job) == job.hour * 60 + job.minute

\* job_queue.run_daily: each day the queue calls run_plugin for every job
\* once, at the job's time; fired lists the jobs it has called today.
RunDaily ==
    /\ polling
    /\ \E i \in DOMAIN jobs, fetchOK \in BOOLEAN :
          /\ i \notin Range(fired)
          /\ \A j \in DOMAIN jobs :
                 JobTime(jobs[j]) < JobTime(jobs[i]) => j \in Range(fired)
          /\ fired' = Append(fired, i)
          /\ LET delivery == run_plugin_named(File, jobs[i].name, {}, fetchOK)
             IN  /\ fire' = [delivery EXCEPT !.fetchOK = fetchOK]
                 /\ raised' = delivery.raised
          /\ lastCall' = Call("run_plugin", 0, jobs[i].name, None)
    /\ UNCHANGED <<exists, text, calls, ref, jobs, snapshot, dir, polling,
                   replies, day, handlers, returned>>

\* Midnight, after every job's time of the day has passed.
NextDay ==
    /\ polling
    /\ day < MaxDays
    /\ Range(fired) = DOMAIN jobs
    /\ day' = day + 1
    /\ fired' = <<>>
    /\ lastCall' = Call("midnight", 0, None, None)
    /\ UNCHANGED <<exists, text, calls, raised, ref, jobs, snapshot, fire,
                   dir, polling, replies, handlers, returned>>

NextRegistry ==
    \/ Schedule
    \/ RunDaily
    \/ NextDay
    \/ Start
    \/ Stop

SpecRegistry == InitRegistry /\ [][NextRegistry]_vars

(***************************************************************************)
(* The store on a file system that can fail.  Path.write_text(s) opens the *)
(* file for writing, which truncates it, and then writes s.                *)
(***************************************************************************)
\* The end of a text that stops inside a line.
Incomplete == [header |-> "<incomplete line>", lines |-> <<>>]

\* toml.loads(text) raises TomlDecodeError on such a text.
TomlDecodeError(file) == file.exists /\ Incomplete \in Range(file.text)

\* What a write of doc that stops early has put in the truncated file: the
\* tables before some table, and possibly the start of that table.
Prefixes(doc) ==
    LET whole == {SubSeq(doc, 1, n) : n \in 0 .. (Len(doc) - 1)}
    IN  whole \cup {Append(t, Incomplete) : t \in whole}

\* SUBSCRIPTIONS_CONFIG.write_text(doc): it succeeds, or open raises and the
\* file is as it was, or the write raises and the file holds a prefix.
write_text(file, doc) ==
    {[raised |-> None, exists |-> TRUE, text |-> doc]}
    \cup {[raised |-> "OSError", exists |-> file.exists, text |-> file.text]}
    \cup {[raised |-> "OSError", exists |-> TRUE, text |-> t] :
             t \in Prefixes(doc)}

\* subscriptions(user) on such a file: what the caller gets.
subscriptions_io(file, user) ==
    IF TomlDecodeError(file)
    THEN Raises("TomlDecodeError")
    ELSE Returns(subscriptions(file, user))

\* subscriber(plugin_name) on such a file.
subscriber_io(file, plugin_name) ==
    IF TomlDecodeError(file)
    THEN Raises("TomlDecodeError")
    ELSE Returns(subscriber(file, plugin_name))

\* subscribe(user, plugin_name, name): line 64 reads, line 72 writes.
subscribe_io(file, user, plugin_name, name) ==
    IF TomlDecodeError(file)
    THEN {[raised |-> "TomlDecodeError",
           exists |-> file.exists, text |-> file.text]}
    ELSE UNION {write_text(file, r.text) :
                   r \in subscribe(file, user, plugin_name, name)}

\* unsubscribe(user, plugin_name): line 80 reads, line 87 writes.
unsubscribe_io(file, user, plugin_name) ==
    IF TomlDecodeError(file)
    THEN {[raised |-> "TomlDecodeError",
           exists |-> file.exists, text |-> file.text]}
    ELSE LET r == unsubscribe(file, user, plugin_name)
         IN  IF r.raised # None THEN {r} ELSE write_text(file, r.text)

\* The message callback sends after the store function has returned.
Confirmation(action, plugin) ==
    LET long == plugin_long_name_from_short_name(plugin)
    IN  [text    |-> (IF action = "subscribe"
                      THEN "Successfully subscribed to "
                      ELSE "Successfully unsubscribed from ")
                     \o (IF long = None THEN "???" ELSE long),
         buttons |-> <<>>]

\* A callback that catches what the store function raises and confirms.
callback_io_confirms_anyway(file, user, action, plugin, name) ==
    LET results == IF action = "subscribe"
                   THEN subscribe_io(file, user, plugin, name)
                   ELSE unsubscribe_io(file, user, plugin)
    IN  {[raised   |-> None,
          returned |-> IF r.raised = None THEN Returns(None)
                       ELSE Raises(r.raised),
          exists   |-> r.exists,
          text     |-> r.text,
          replies  |-> <<Confirmation(action, plugin)>>] : r \in results}

\* Bot.callback on such a file: the store function is called first and
\* nothing catches what it raises; send_message comes after it.
callback_io(file, user, action, plugin, name) ==
    LET results == IF action = "subscribe"
                   THEN subscribe_io(file, user, plugin, name)
                   ELSE unsubscribe_io(file, user, plugin)
    IN  {[raised   |-> r.raised,
          returned |-> IF r.raised = None THEN Returns(None)
                       ELSE Raises(r.raised),
          exists   |-> r.exists,
          text     |-> r.text,
          replies  |-> IF r.raised = None
                       THEN <<Confirmation(action, plugin)>>
                       ELSE <<>>] : r \in results}

\* The callback handler, with the failures of the file system.
Commit ==
    /\ polling
    /\ calls < MaxCommits
    /\ \E user \in UserIds, action \in {"subscribe", "unsubscribe"},
          plugin \in PluginNames :
          \E result \in callback_io(File, user, action, plugin,
                                    ChatName(user)) :
              /\ exists' = result.exists
              /\ text' = result.text
              /\ raised' = result.raised
              /\ returned' = result.returned
              /\ replies' = result.replies
              /\ lastCall' = Call("callback " \o action, user, plugin,
                                  ChatName(user))
              /\ ref' = IF result.returned.raised # None THEN ref
                        ELSE IF action = "subscribe"
                        THEN RefSubscribe(ref, user, plugin)
                        ELSE RefUnsubscribe(ref, user, plugin)
    /\ calls' = calls + 1
    /\ fire' = NoDelivery
    /\ UNCHANGED <<jobs, snapshot, dir, polling, day, fired, handlers>>

Read(op, user, plugin_name, outcome) ==
    /\ returned' = outcome
    /\ raised' = outcome.raised
    /\ lastCall' = Call(op, user, plugin_name, None)
    /\ fire' = NoDelivery
    /\ UNCHANGED <<exists, text, calls, ref, jobs, snapshot, dir, polling,
                   replies, day, fired, handlers>>

\* A call of subscriptions(user), as Bot.start, Bot.stop and
\* Bot.subscriptions make it.
ReadSubscriptions ==
    \E user \in UserIds :
        Read("subscriptions", user, None, subscriptions_io(File, user))

\* A call of subscriber(plugin_name), as Bot.run_plugin_named and Bot.psa
\* make it.
ReadSubscriber ==
    \E plugin_name \in PluginNames \cup {None} :
        Read("subscriber", 0, plugin_name, subscriber_io(File, plugin_name))

NextFaults ==
    \/ Schedule
    \/ Commit
    \/ ReadSubscriptions
    \/ ReadSubscriber

SpecFaults == Init /\ [][NextFaults]_vars

(***************************************************************************)
(* The threads of the bot.  The updater puts the updates in a queue; the   *)
(* dispatcher thread takes them one by one and calls the handler; the job  *)
(* queue calls run_plugin from its own thread.  handlers lists the         *)
(* callback updates in the order of their arrival, each with the place its *)
(* handler has reached: "queued", "read" (the store function has read the  *)
(* file and made the text to write), "opened" (write_text has opened, and  *)
(* so truncated, the file), "done".                                        *)
(***************************************************************************)
\* A handler registered with run_async=True is run in a worker thread.
run_async_given == TRUE

\* CallbackQueryHandler(self.callback): run_async is not given, the
\* dispatcher calls the handler itself and takes the next update after it.
run_async == FALSE

NoFile == [exists |-> FALSE, text |-> <<>>]

InProgress(i) == handlers[i].phase \in {"read", "opened"}

\* A callback update arrives.
Arrive ==
    /\ polling
    /\ calls < MaxCommits
    /\ \E user \in UserIds, action \in {"subscribe", "unsubscribe"},
          plugin \in Registered :
          /\ \A i \in DOMAIN handlers : handlers[i].user # user
          /\ handlers' = Append(handlers,
                 [user |-> user, action |-> action, plugin |-> plugin,
                  phase |-> "queued",
                  behind |-> Cardinality({i \in DOMAIN handlers :
                                 handlers[i].phase # "done"}),
                  before |-> NoFile, doc |-> <<>>])
          /\ lastCall' = Call("update", user, plugin, None)
    /\ calls' = calls + 1
    /\ raised' = None
    /\ fire' = NoDelivery
    /\ UNCHANGED <<exists, text, ref, jobs, snapshot, dir, polling, replies,
                   day, fired, returned>>

\* The handler of the first queued update starts: lines 283-285 and the
\* store function up to its write_text.
Begin ==
    /\ \E i \in DOMAIN handlers :
          LET h == handlers[i]
          IN  /\ h.phase = "queued"
              /\ \A j \in 1 .. (i - 1) : handlers[j].phase # "queued"
              /\ run_async \/ \A j \in DOMAIN handlers : ~InProgress(j)
              /\ \E r \in callback(File, h.user, h.action, h.plugin,
                                   ChatName(h.user)) :
                    /\ handlers' =
                          [handlers EXCEPT ![i] =
                              IF r.raised # None
                              THEN [h EXCEPT !.phase = "done"]
                              ELSE [h EXCEPT !.phase = "read",
                                             !.before = File,
                                             !.doc = r.text]]
                    /\ raised' = r.raised
              /\ lastCall' = Call("callback " \o h.action, h.user, h.plugin,
                                  ChatName(h.user))
    /\ fire' = NoDelivery
    /\ UNCHANGED <<exists, text, calls, ref, jobs, snapshot, dir, polling,
                   replies, day, fired, returned>>

\* write_text opens the file with mode "w".
Open ==
    /\ \E i \in DOMAIN handlers :
          /\ handlers[i].phase = "read"
          /\ handlers' = [handlers EXCEPT ![i].phase = "opened"]
          /\ lastCall' = Call("open", handlers[i].user, handlers[i].plugin,
                              None)
    /\ exists' = TRUE
    /\ text' = <<>>
    /\ raised' = None
    /\ fire' = NoDelivery
    /\ UNCHANGED <<calls, ref, jobs, snapshot, dir, polling, replies, day,
                   fired, returned>>

\* write_text writes the text and closes the file; the store function
\* returns and callback sends its confirmation.
Write ==
    /\ \E i \in DOMAIN handlers :
          LET h == handlers[i]
          IN  /\ h.phase = "opened"
              /\ handlers' = [handlers EXCEPT ![i].phase = "done"]
              /\ text' = h.doc
              /\ replies' = <<Confirmation(h.action, h.plugin)>>
              /\ ref' = IF h.action = "subscribe"
                        THEN RefSubscribe(ref, h.user, h.plugin)
                        ELSE RefUnsubscribe(ref, h.user, h.plugin)
              /\ lastCall' = Call("write", h.user, h.plugin, None)
    /\ raised' = None
    /\ fire' = NoDelivery
    /\ UNCHANGED <<exists, calls, jobs, snapshot, dir, polling, day, fired,
                   returned>>

NextConcurrent ==
    \/ Schedule
    \/ Arrive
    \/ Begin
    \/ Open
    \/ Write
    \/ RunDaily

SpecConcurrent == Init /\ [][NextConcurrent]_vars

(***************************************************************************)
(* Views of the store used by the properties.                              *)
(***************************************************************************)
Subs(file, user) == Range(subscriptions(file, user))

\* The record the file holds for a user: whether there is one, its list of
\* subscriptions as stored, and its display name.
Record(file, user) ==
    LET data == ReadData(file)
    IN  IF Has(data, str(user))
        THEN [present |-> TRUE,
              subscriptions |-> GetSubscriptions(Get(data, str(user))),
              name |-> IF "name" \in DOMAIN Get(data, str(user))
                       THEN Get(data, str(user)).name ELSE None]
        ELSE [present |-> FALSE, subscriptions |-> <<>>, name |-> None]

\* The same, with the subscriptions as a set.
RecordView(file, user) ==
    [present |-> Record(file, user).present,
     subs    |-> Subs(file, user),
     name    |-> Record(file, user).name]

Count(list, x) == Cardinality({i \in DOMAIN list : list[i] = x})

StoreCalled == calls' = calls + 1

DeliveryOps == {"run_plugin", "run_plugin_named", "psa"}

FireOps == {"run_plugin", "run_plugin_named"}

(***************************************************************************)
(* C1.  After any sequence of subscribe and unsubscribe calls from no      *)
(* file, subscriptions(u) is, as a set, what the same calls leave in a     *)
(* reference map from users to sets.                                       *)
(***************************************************************************)
C1_StoreRefinesReferenceMap ==
    \A u \in UserIds : Subs(File, u) = ref[u]

\* subscribe(42, bigpanda), subscribe(42, kjilat), unsubscribe(42, bigpanda)
\* has left exactly kjilat.
C1_Witness ==
    /\ calls = 3
    /\ lastCall.op = "unsubscribe" /\ lastCall.user = 42
    /\ lastCall.plugin = "bigpanda" /\ raised = None
    /\ Subs(File, 42) = {"kjilat"}

(***************************************************************************)
(* C2.  subscribe(u, p, name) called a second time in a row leaves every   *)
(* user's record as the first call left it, and p is in u's list exactly   *)
(* once.                                                                   *)
(***************************************************************************)
C2_SubscribeIdempotent ==
    [][(StoreCalled /\ lastCall'.op = "subscribe" /\ lastCall'.again)
          => /\ \A u \in UserIds : RecordView(File', u) = RecordView(File, u)
             /\ Count(subscriptions(File', lastCall'.user),
                      lastCall'.plugin) = 1
             /\ \A q \in PluginNames :
                    Count(subscriptions(File', lastCall'.user), q) <= 1]_vars

\* The second of two equal subscribe calls has returned, next to another
\* user's record.
C2_Witness ==
    /\ lastCall.op = "subscribe" /\ lastCall.again
    /\ lastCall.plugin \in Subs(File, lastCall.user)
    /\ \E v \in UserIds \ {lastCall.user} : Record(File, v).present

(***************************************************************************)
(* C3.  unsubscribe(u, p) with p not in u's subscriptions returns without  *)
(* raising and leaves the file as it was, whether u has a record or not.   *)
(***************************************************************************)
C3_UnsubscribeNonMemberIsNoOp ==
    [][(StoreCalled /\ lastCall'.op = "unsubscribe"
          /\ lastCall'.plugin \notin Subs(File, lastCall'.user))
          => /\ raised' = None
             /\ exists' = exists
             /\ text' = text]_vars

(***************************************************************************)
(* C4.  No record with an empty subscription list is ever in the file, and *)
(* a user without subscriptions is not among subscriber(None).             *)
(***************************************************************************)
C4_NoEmptyRecord ==
    /\ \A u \in UserIds :
          Record(File, u).present => Record(File, u).subscriptions # <<>>
    /\ \A u \in UserIds :
          subscriptions(File, u) = <<>> => u \notin Range(subscriber(File, None))

\* An unsubscribe has just removed its user's last subscription.
C4_Witness ==
    /\ lastCall.op = "unsubscribe" /\ raised = None
    /\ ref[lastCall.user] = {}
    /\ subscriptions(File, lastCall.user) = <<>>
    /\ lastCall.user \notin Range(subscriber(File, None))
    /\ subscriber(File, None) # <<>>

(***************************************************************************)
(* C5.  p is in subscriptions(u) exactly when u is in subscriber(p).       *)
(***************************************************************************)
C5_PartitionCorrect ==
    \A u \in UserIds, p \in PluginNames :
        p \in Range(subscriptions(File, u)) <=> u \in Range(subscriber(File, p))

\* Two users with different subscriptions.
C5_Witness ==
    \E u, v \in UserIds, p, q \in PluginNames :
        /\ u # v /\ p # q
        /\ Range(subscriber(File, p)) = {u, v}
        /\ Range(subscriber(File, q)) = {v}

(***************************************************************************)
(* C6.  A subscribe or unsubscribe call for one user leaves the record of  *)
(* every other user, list and display name, as it was.                     *)
(***************************************************************************)
C6_OtherRecordsUnchanged ==
    [][(StoreCalled /\ lastCall'.op \in {"subscribe", "unsubscribe"})
          => \A v \in UserIds \ {lastCall'.user} :
                 Record(File', v) = Record(File, v)]_vars

\* An unsubscribe has deleted its user's record next to a named record of
\* another user.
C6_Witness ==
    /\ lastCall.op = "unsubscribe" /\ raised = None
    /\ ~Record(File, lastCall.user).present
    /\ \E v \in UserIds \ {lastCall.user} :
           Record(File, v).present /\ Record(File, v).name # None

(***************************************************************************)
(* C7.  A delivery that gets as far as its loop attempts the send for      *)
(* every recipient in the list, logs an error for each recipient whose     *)
(* send raised, and lets no exception out.                                 *)
(***************************************************************************)
C7_FanOutIsolation ==
    (/\ lastCall.op \in DeliveryOps
     /\ fire.fetchOK
     /\ lastCall.op = "psa" \/ lastCall.plugin \in Registered)
        => /\ fire.attempted = fire.chat_ids
           /\ fire.errors =
                  SelectSeq(fire.chat_ids, LAMBDA c : c \in fire.failing)
           /\ fire.sent =
                  SelectSeq(fire.chat_ids, LAMBDA c : c \notin fire.failing)
           /\ fire.raised = None
           /\ raised = None

\* Recipients 1, 2, 42 of a plugin, the send to 2 raising: 1 and 42 are sent.
C7_Witness ==
    /\ lastCall.op \in FireOps
    /\ fire.chat_ids = <<1, 2, 42>>
    /\ fire.failing = {2}
    /\ fire.sent = <<1, 42>>
    /\ fire.errors = <<2>>

(***************************************************************************)
(* C8.  The list handed to a plugin's run is the users subscribed to that  *)
(* plugin in the file when the plugin is fired.                            *)
(***************************************************************************)
C8_SubscribersReadAtFiring ==
    (lastCall.op \in FireOps /\ lastCall.plugin \in Registered)
        => Range(fire.chat_ids) =
               {u \in UserIds : lastCall.plugin \in Subs(File, u)}

\* A job fired for a user who subscribed after the jobs were scheduled.
C8_Witness ==
    /\ lastCall.op = "run_plugin"
    /\ jobs # <<>>
    /\ \E u \in Range(fire.chat_ids) : u \notin snapshot[lastCall.plugin]

(***************************************************************************)
(* C9.  Firing a name that is not in the registry logs an error, raises    *)
(* nothing, invokes no run and leaves the file alone; firing a registered  *)
(* plugin invokes that plugin's run exactly once.                          *)
(***************************************************************************)
C9_UnknownFiringIsHarmless ==
    /\ []((lastCall.op \in FireOps /\ lastCall.plugin \notin Registered)
            => /\ fire.ran = <<>>
               /\ fire.attempted = <<>>
               /\ fire.log = <<"Running (not found)">>
               /\ raised = None)
    /\ []((lastCall.op \in FireOps /\ lastCall.plugin \in Registered)
            => fire.ran = <<lastCall.plugin>> /\ fire.log = <<>>)
    /\ [][lastCall'.op \in FireOps => exists' = exists /\ text' = text]_vars

\* The unregistered name was fired while the file had subscribers.
C9_Witness ==
    /\ lastCall.op = "run_plugin_named"
    /\ lastCall.plugin = "ghost"
    /\ subscriber(File, None) # <<>>

(***************************************************************************)
(* C10.  An error raised out of a plugin's run is caught by the dispatch   *)
(* path: nothing is raised out of run_plugin or run_plugin_named.          *)
(***************************************************************************)
C10_RunErrorsDoNotPropagate ==
    lastCall.op \in FireOps => raised = None

(***************************************************************************)
(* Views of the registry and of the jobs.                                  *)
(***************************************************************************)
RegistryNames == {plugins[i].k : i \in DOMAIN plugins}

JobsNamed(name) == {i \in DOMAIN jobs : jobs[i].name = name}

FiredToday(name) ==
    Cardinality({k \in DOMAIN fired : jobs[fired[k]].name = name})

Offered(messages) ==
    UNION {{messages[m].buttons[b].data : b \in DOMAIN messages[m].buttons} :
              m \in DOMAIN messages}

(***************************************************************************)
(* C11.  Once the jobs are scheduled there is exactly one job for each     *)
(* registered plugin, with the plugin's name, hour and minute and second   *)
(* 0, and no job for any other name; so each registered plugin is fired    *)
(* exactly once in each day and no other name is fired.                    *)
(***************************************************************************)
C11_OneDailyJobPerPlugin ==
    /\ [](polling =>
            \A name \in PluginNames :
                IF Has(plugins, name)
                THEN /\ Cardinality(JobsNamed(name)) = 1
                     /\ \A i \in JobsNamed(name) :
                            /\ jobs[i].hour = Get(plugins, name).HOUR
                            /\ jobs[i].minute = Get(plugins, name).MINUTE
                            /\ jobs[i].second = 0
                ELSE JobsNamed(name) = {})
    /\ [](\A name \in PluginNames : FiredToday(name) <= 1)
    /\ [][day' = day + 1 =>
            \A name \in PluginNames :
                FiredToday(name) = IF Has(plugins, name) THEN 1 ELSE 0]_vars

\* The second day, with every job of a registry of two fired again.
C11_Witness ==
    /\ day = 2
    /\ Len(jobs) = 2
    /\ Len(fired) = 2

(***************************************************************************)
(* C12.  A module of the plugin directory without run is not in the        *)
(* registry, has no job, is never fired and is never offered by start or   *)
(* stop; every plugin of the registry has HOUR, MINUTE and run.            *)
(***************************************************************************)
C12_RegistryExclusion ==
    /\ \A i \in DOMAIN dir :
          ~hasattr(dir[i], "run") =>
              /\ dir[i].name \notin RegistryNames
              /\ JobsNamed(dir[i].name) = {}
              /\ FiredToday(dir[i].name) = 0
              /\ \A action \in {"subscribe", "unsubscribe"} :
                     <<action, dir[i].name>> \notin Offered(replies)
    /\ \A k \in DOMAIN plugins :
          \E i \in DOMAIN dir :
              /\ dir[i].name = plugins[k].k
              /\ hasattr(dir[i], "HOUR")
              /\ hasattr(dir[i], "MINUTE")
              /\ hasattr(dir[i], "run")

\* A directory with a timed module that lacks run, next to a plugin that is
\* scheduled and offered.
C12_Witness ==
    /\ \E i \in DOMAIN dir :
          /\ ~hasattr(dir[i], "run")
          /\ hasattr(dir[i], "HOUR") /\ hasattr(dir[i], "MINUTE")
    /\ jobs # <<>>
    /\ lastCall.op = "start"
    /\ Offered(replies) # {}

(***************************************************************************)
(* C13, as claimed.  A module with run but without HOUR or MINUTE is       *)
(* registered and scheduled, the missing field being 0.                    *)
(***************************************************************************)
C13_MissingTimeDefaultsToMidnight ==
    \A i \in DOMAIN dir :
        hasattr(dir[i], "run") =>
            /\ dir[i].name \in RegistryNames
            /\ polling =>
                   \E j \in DOMAIN jobs :
                       /\ jobs[j].name = dir[i].name
                       /\ jobs[j].hour = plugin_hour(dir[i].attrs)
                       /\ jobs[j].minute = plugin_minute(dir[i].attrs)

(***************************************************************************)
(* C13, amended.  A module with run but without HOUR or without MINUTE is  *)
(* rejected: it is not in the registry and no job is scheduled for it.     *)
(* Every job has the hour and the minute its plugin declares.              *)
(***************************************************************************)
C13_MissingTimeIsRejected ==
    /\ \A i \in DOMAIN dir :
          (/\ hasattr(dir[i], "run")
           /\ ~hasattr(dir[i], "HOUR") \/ ~hasattr(dir[i], "MINUTE"))
              => /\ dir[i].name \notin RegistryNames
                 /\ JobsNamed(dir[i].name) = {}
    /\ \A j \in DOMAIN jobs :
          \E i \in DOMAIN dir :
              /\ dir[i].name = jobs[j].name
              /\ hasattr(dir[i], "HOUR") /\ hasattr(dir[i], "MINUTE")
              /\ jobs[j].hour = dir[i].attrs.HOUR
              /\ jobs[j].minute = dir[i].attrs.MINUTE

\* The jobs are scheduled for a directory with a runnable module that has
\* no HOUR, next to a registered plugin.
C13_Witness ==
    /\ polling
    /\ jobs # <<>>
    /\ \E i \in DOMAIN dir :
          hasattr(dir[i], "run") /\ ~hasattr(dir[i], "HOUR")

(***************************************************************************)
(* C18.  start offers exactly the registered plugins the user does not     *)
(* subscribe to, stop exactly the registered plugins the user subscribes   *)
(* to, each button tagged with the plugin's name; with nothing to offer    *)
(* the one message has no button.  Neither changes the file.               *)
(***************************************************************************)
C18_ListingsOfferTheRightPlugins ==
    /\ [](lastCall.op = "start" =>
            LET candidates == RegistryNames \ Subs(File, lastCall.user)
            IN  /\ Len(replies) = 1
                /\ Len(replies[1].buttons) = Cardinality(candidates)
                /\ Offered(replies) = {<<"subscribe", p>> : p \in candidates})
    /\ [](lastCall.op = "stop" =>
            LET candidates == RegistryNames \cap Subs(File, lastCall.user)
            IN  /\ Len(replies) = 1
                /\ Len(replies[1].buttons) = Cardinality(candidates)
                /\ Offered(replies) = {<<"unsubscribe", p>> : p \in candidates})
    /\ [][lastCall'.op \in {"start", "stop"}
            => exists' = exists /\ text' = text]_vars

\* start has offered kjilat alone to a subscriber of bigpanda.
C18_Witness ==
    /\ lastCall.op = "start"
    /\ Subs(File, lastCall.user) = {"bigpanda"}
    /\ Offered(replies) = {<<"subscribe", "kjilat">>}

(***************************************************************************)
(* C19.  Every plugin name stored in a user's subscriptions is the name of *)
(* a registered plugin: a callback naming a plugin outside the registry    *)
(* adds nothing to the file.                                               *)
(***************************************************************************)
C19_StoredIdsAreRegistered ==
    \A user \in UserIds : Subs(File, user) \subseteq RegistryNames

(***************************************************************************)
(* C14.  When the store function called by callback raises, be it for the  *)
(* write that fails, the exception leaves the handler and no message is    *)
(* sent; a confirmation is sent only after the store function has          *)
(* returned, with the file holding what it wrote.                          *)
(***************************************************************************)
C14_NoConfirmationAfterFailedWrite ==
    lastCall.op \in {"callback subscribe", "callback unsubscribe"} =>
        /\ returned.raised # None =>
               /\ raised = returned.raised
               /\ replies = <<>>
        /\ replies # <<>> =>
               /\ returned.raised = None
               /\ replies = <<Confirmation(IF lastCall.op = "callback subscribe"
                                           THEN "subscribe" ELSE "unsubscribe",
                                           lastCall.plugin)>>
               /\ ~TomlDecodeError(File)
               /\ lastCall.plugin \in Subs(File, lastCall.user)
                      <=> lastCall.op = "callback subscribe"

\* The write of a callback has failed and left an incomplete file.
C14_Witness ==
    /\ lastCall.op \in {"callback subscribe", "callback unsubscribe"}
    /\ returned.raised = "OSError"
    /\ TomlDecodeError(File)

(***************************************************************************)
(* C15.  subscriptions(user) and subscriber(plugin_name) never raise, and  *)
(* return the empty list for a user without a table, for a file that does  *)
(* not exist and for a file that cannot be decoded.                        *)
(***************************************************************************)
C15_ReadsAreFailSoft ==
    lastCall.op \in {"subscriptions", "subscriber"} =>
        /\ raised = None
        /\ returned.raised = None
        /\ (~exists \/ TomlDecodeError(File)) => returned.value = <<>>
        /\ (/\ lastCall.op = "subscriptions"
            /\ ~TomlDecodeError(File)
            /\ ~Has(ReadData(File), str(lastCall.user)))
               => returned.value = <<>>

(***************************************************************************)
(* C16.  A write of the file is atomic: while a store function is writing, *)
(* the file is the one before the call or the one after it, and a plugin   *)
(* fired meanwhile is run for the subscribers of one of these two.         *)
(***************************************************************************)
C16_WritesAreAtomic ==
    \A i \in DOMAIN handlers :
        handlers[i].phase = "opened" =>
            LET before == handlers[i].before
                after  == [exists |-> TRUE, text |-> handlers[i].doc]
            IN  /\ File \in {before, after}
                /\ lastCall.op = "run_plugin" =>
                       fire.chat_ids \in
                           {subscriber(before, lastCall.plugin),
                            subscriber(after, lastCall.plugin)}

(***************************************************************************)
(* C17.  No update is lost: when the handlers of the callbacks that have   *)
(* arrived are all done, also of callbacks that arrived while another was  *)
(* being handled, each user's subscriptions in the file are those of the   *)
(* reference map with every edit applied.  At most one handler is between  *)
(* its read and the end of its write.                                      *)
(***************************************************************************)
C17_NoLostUpdate ==
    /\ Cardinality({i \in DOMAIN handlers : InProgress(i)}) <= 1
    /\ (\A i \in DOMAIN handlers : handlers[i].phase = "done")
           => \A user \in UserIds : Subs(File, user) = ref[user]

\* Two users have subscribed to kjilat, the second one's callback having
\* arrived while the first one's was not done, and both are done.
C17_Witness ==
    /\ Len(handlers) = 2
    /\ handlers[1].phase = "done" /\ handlers[2].phase = "done"
    /\ handlers[2].behind = 1
    /\ handlers[1].action = "subscribe" /\ handlers[1].plugin = "kjilat"
    /\ handlers[2].action = "subscribe" /\ handlers[2].plugin = "kjilat"
    /\ "kjilat" \in Subs(File, handlers[1].user)
    /\ "kjilat" \in Subs(File, handlers[2].user)

====
